---- MODULE Spec2Model ----
(***************************************************************************)
(* A model of service.go of the zeroconf package: the memoized name        *)
(* composition of ServiceRecord (called in turn, with its fields reassigned *)
(* in between, and by unsynchronized goroutines), the one-shot signals of  *)
(* LookupParams, the Entries channel between its producer and its          *)
(* consumer, and the snapshot read of Browser.Entries over the entryCache. *)
(*                                                                         *)
(* Go strings are sequences of one-character strings, so that trimming and *)
(* formatting are computed and not assumed.  The empty string is << >>.    *)
(***************************************************************************)
EXTENDS Integers, Sequences, FiniteSets, TLC

VARIABLES
    \* ---- ServiceRecord (service.go 11-61) ----
    record,      \* the ServiceRecord: its three fields and its three memo fields
    rets,        \* what each accessor has returned so far, in call order
    \* ---- LookupParams (service.go 64-91) ----
    lp,          \* Entries / stopProbing channel states and the sync.Once
    cpc,         \* each caller's position inside done() / disableProbing()
    ncalls,      \* calls each caller has started
    finished,    \* per caller: the calls of each method that have returned
    panicIn,     \* "none", or the method in which the process panicked
    \* ---- the Entries channel (service.go 66) and its two ends ----
    ch,          \* the channel: its capacity and the values it buffers
    sent,        \* entries the producer has sent on Entries so far
    cons,        \* the consumer: its position and what it has received
    \* ---- the memo fields word by word (service.go 17-19), for unsynchronized callers ----
    words,       \* each memo string as the two words Go stores: data pointer and length
    gor,         \* each goroutine's position inside the accessor it called
    lenFirst,    \* the order in which the two words of a stored string become visible
    \* ---- entryCache / Browser (service.go 106-147) ----
    cacheNil,    \* b.cache == nil
    entries,     \* b.cache.entries: key -> ServiceEntry struct (absent keys left out)
    heap,        \* backing arrays of slices and the time.Time values pointed to
    rw,          \* the RWMutex: the set of read holders and the write holder
    rpc,         \* each reader's position inside Entries()
    visited,     \* the keys each reader's range loop has visited
    result,      \* each reader's slice r
    wr,          \* each writer's position and operation
    nwrites,     \* write operations started so far
    now,         \* the clock
    hist         \* history: what the claims need to remember of each call

vars == << record, rets, lp, cpc, ncalls, finished, panicIn,
           ch, sent, cons, words, gor, lenFirst,
           cacheNil, entries, heap, rw, rpc, visited, result, wr, nwrites, now, hist >>

nameVars  == << record, rets >>
subVars   == << lp, cpc, ncalls, finished, panicIn >>
chanVars  == << ch, sent, cons >>
raceVars  == << words, gor, lenFirst >>
cacheVars == << cacheNil, entries, heap, rw, rpc, visited, result, wr, nwrites, now, hist >>

----------------------------------------------------------------------------
(* Bounds *)

MaxLen   == 2    \* length of the generated field strings
MaxCalls == 2    \* calls of each accessor on the record

----------------------------------------------------------------------------
(* Strings *)

Dot == "."

Alphabet == {"a", Dot}

BoundedStrings == UNION { [1..n -> Alphabet] : n \in 0..MaxLen }

\* The strings of the documented examples.
HttpTcp   == << "_", "h", "t", "t", "p", ".", "_", "t", "c", "p" >>
Local     == << "l", "o", "c", "a", "l" >>
MyPrinter == << "M", "y", " ", "P", "r", "i", "n", "t", "e", "r" >>

\* "_services._dns-sd._udp." (service.go 53)
MetaQueryPrefix ==
    << "_", "s", "e", "r", "v", "i", "c", "e", "s", ".",
       "_", "d", "n", "s", "-", "s", "d", ".", "_", "u", "d", "p", "." >>

Instances == BoundedStrings \cup {MyPrinter}
Services  == BoundedStrings \cup {HttpTcp}
Domains   == BoundedStrings \cup {Local, Local \o <<Dot>>}

\* trimDot is called by service.go but defined elsewhere in the package; the
\* specification says it trims the trailing delimiters of a component.
RECURSIVE trimDot(_)
trimDot(str) ==
    IF str # << >> /\ str[Len(str)] = Dot
    THEN trimDot(SubSeq(str, 1, Len(str) - 1))
    ELSE str

----------------------------------------------------------------------------
(* ServiceRecord *)

\* NewServiceRecord (service.go 59-61)
NewServiceRecord(instance, service, domain) ==
    [ Instance |-> instance, Service |-> service, Domain |-> domain,
      serviceName |-> << >>, serviceInstanceName |-> << >>,
      serviceTypeName |-> << >> ]

\* ServiceName with the trimDot of the domain forgotten.
ServiceName_untrimmed(s) ==
    LET s1 == IF s.serviceName = << >>
              THEN [s EXCEPT !.serviceName =
                       trimDot(s.Service) \o <<Dot>> \o s.Domain \o <<Dot>>]
              ELSE s
    IN  [rec |-> s1, ret |-> s1.serviceName]

\* ServiceName (service.go 24-29): the record after the call and the value returned.
\* ServiceName composing the name on every call (nothing cached).
ServiceName_recompute(s) ==
    LET s1 == [s EXCEPT !.serviceName =
                  trimDot(s.Service) \o <<Dot>> \o trimDot(s.Domain) \o <<Dot>>]
    IN  [rec |-> s1, ret |-> s1.serviceName]

ServiceName(s) ==
    LET s1 == IF s.serviceName = << >>
              THEN [s EXCEPT !.serviceName =
                       trimDot(s.Service) \o <<Dot>> \o trimDot(s.Domain) \o <<Dot>>]
              ELSE s
    IN  [rec |-> s1, ret |-> s1.serviceName]

\* ServiceInstanceName with the trimDot of the instance forgotten.
ServiceInstanceName_untrimmed(s) ==
    IF s.Instance = << >>
    THEN [rec |-> s, ret |-> << >>]
    ELSE LET sn == ServiceName(s)
             s1 == IF s.serviceInstanceName = << >>
                   THEN [sn.rec EXCEPT !.serviceInstanceName =
                            s.Instance \o <<Dot>> \o sn.ret]
                   ELSE s
         IN  [rec |-> s1, ret |-> s1.serviceInstanceName]

\* ServiceInstanceName (service.go 33-43)
ServiceInstanceName(s) ==
    IF s.Instance = << >>
    THEN [rec |-> s, ret |-> << >>]
    ELSE LET sn == ServiceName(s)
             s1 == IF s.serviceInstanceName = << >>
                   THEN [sn.rec EXCEPT !.serviceInstanceName =
                            trimDot(s.Instance) \o <<Dot>> \o sn.ret]
                   ELSE s
         IN  [rec |-> s1, ret |-> s1.serviceInstanceName]

\* ServiceTypeName (service.go 46-56)
\* ServiceTypeName without the default domain (for the sensitivity check).
ServiceTypeName_nodefault(s) ==
    LET s1 == IF s.serviceTypeName = << >>
              THEN [s EXCEPT !.serviceTypeName =
                       MetaQueryPrefix \o trimDot(s.Domain) \o <<Dot>>]
              ELSE s
    IN  [rec |-> s1, ret |-> s1.serviceTypeName]

ServiceTypeName(s) ==
    LET domain == IF Len(s.Domain) > 0 THEN trimDot(s.Domain) ELSE Local
        s1 == IF s.serviceTypeName = << >>
              THEN [s EXCEPT !.serviceTypeName =
                       MetaQueryPrefix \o domain \o <<Dot>>]
              ELSE s
    IN  [rec |-> s1, ret |-> s1.serviceTypeName]

NameInit ==
    /\ record \in { NewServiceRecord(i, s, d) :
                      i \in Instances, s \in Services, d \in Domains }
    /\ rets = [ServiceName |-> << >>, ServiceInstanceName |-> << >>,
               ServiceTypeName |-> << >>]

CallServiceName ==
    /\ Len(rets.ServiceName) < MaxCalls
    /\ record' = ServiceName(record).rec
    /\ rets' = [rets EXCEPT !.ServiceName = Append(@, ServiceName(record).ret)]
    /\ UNCHANGED << subVars, cacheVars, chanVars, raceVars >>

CallServiceInstanceName ==
    /\ Len(rets.ServiceInstanceName) < MaxCalls
    /\ record' = ServiceInstanceName(record).rec
    /\ rets' = [rets EXCEPT !.ServiceInstanceName =
                   Append(@, ServiceInstanceName(record).ret)]
    /\ UNCHANGED << subVars, cacheVars, chanVars, raceVars >>

CallServiceTypeName ==
    /\ Len(rets.ServiceTypeName) < MaxCalls
    /\ record' = ServiceTypeName(record).rec
    /\ rets' = [rets EXCEPT !.ServiceTypeName =
                   Append(@, ServiceTypeName(record).ret)]
    /\ UNCHANGED << subVars, cacheVars, chanVars, raceVars >>

\* The exported fields are plain struct fields (service.go 12-14): a caller
\* holding the record may assign to them at any time.
IdentityFields == {"Instance", "Service", "Domain"}

Reassigned == { << >>, <<"a">>, <<"a", Dot>> }

StaleInit ==
    /\ record \in { NewServiceRecord(i, s, d) :
                      i \in Reassigned, s \in Reassigned, d \in Reassigned }
    /\ rets = [ServiceName |-> << >>, ServiceInstanceName |-> << >>,
               ServiceTypeName |-> << >>]

\* s.Instance = v, s.Service = v or s.Domain = v, by the record's holder
SetField ==
    /\ \E f \in IdentityFields : \E v \in Reassigned \ {record[f]} :
          record' = [record EXCEPT ![f] = v]
    /\ UNCHANGED rets
    /\ UNCHANGED << subVars, cacheVars, chanVars, raceVars >>

----------------------------------------------------------------------------
(* The accessors called by several goroutines on one record.  Nothing       *)
(* synchronizes them: the test, the store and the final read of the memo    *)
(* field are separate steps, and a Go string is two words (data pointer and *)
(* length) that are stored and loaded one at a time.                        *)

NGoroutines == 2

Goroutines == 1..NGoroutines

Accessors == {"ServiceName", "ServiceInstanceName", "ServiceTypeName"}

\* The field an accessor caches its result in.
CacheOf(accessor) ==
    CASE accessor = "ServiceName"         -> "serviceName"
      [] accessor = "ServiceInstanceName" -> "serviceInstanceName"
      [] accessor = "ServiceTypeName"     -> "serviceTypeName"

\* A string as its two words; the nil data pointer is << >> (no composed name
\* is empty).  The zero value "" is nil with length 0.
NoString == [data |-> << >>, len |-> 0]

StringOf(v) == IF v = << >> THEN NoString ELSE [data |-> v, len |-> Len(v)]

\* A length without the bytes it counts: words of two different values.
Torn(w) == w.len > 0 /\ w.data = << >>

IdleGoroutine ==
    [pc |-> "idle", acc |-> "none", f |-> "none", first |-> "none",
     got |-> NoString, inner |-> NoString, out |-> NoString]

RaceInit ==
    /\ words = [f \in {CacheOf(a) : a \in Accessors} |-> NoString]
    /\ gor = [g \in Goroutines |-> IdleGoroutine]
    /\ lenFirst \in BOOLEAN

\* A torn string passed to fmt.Sprintf is read through the nil pointer: the
\* process dies.
Running == \A g \in Goroutines : gor[g].pc # "crashed"

\* The name a goroutine is about to store in the field it works on: the
\* fmt.Sprintf of lines 26, 40 and 53.  The memo fields are read from words,
\* so the accessors are applied to the fields alone.
Composing(g) ==
    LET s == NewServiceRecord(record.Instance, record.Service, record.Domain)
    IN  CASE gor[g].f = "serviceName"     -> ServiceName(s).ret
          [] gor[g].f = "serviceTypeName" -> ServiceTypeName(s).ret
          [] gor[g].f = "serviceInstanceName" ->
                trimDot(record.Instance) \o <<Dot>>
                   \o SubSeq(gor[g].inner.data, 1, gor[g].inner.len)

\* a goroutine calls one of the accessors; line 34 returns "" at once
race_call(g) ==
    /\ Running
    /\ gor[g].pc = "idle"
    /\ \E a \in Accessors :
         gor' = [gor EXCEPT ![g] =
                   IF a = "ServiceInstanceName" /\ record.Instance = << >>
                   THEN [@ EXCEPT !.pc = "done", !.acc = a, !.out = NoString]
                   ELSE [@ EXCEPT !.pc = "check", !.acc = a, !.f = CacheOf(a)]]
    /\ UNCHANGED << words, lenFirst >>
    /\ UNCHANGED << nameVars, subVars, cacheVars, chanVars >>

\* lines 25, 38, 47: the test of the memo field against "" reads its length.
\* ServiceInstanceName finding its field empty calls ServiceName() first.
race_check(g) ==
    /\ Running
    /\ gor[g].pc = "check"
    /\ gor' = [gor EXCEPT ![g] =
                 IF words[gor[g].f].len # 0
                 THEN [@ EXCEPT !.pc = "load1"]
                 ELSE IF gor[g].f = "serviceInstanceName"
                      THEN [@ EXCEPT !.f = "serviceName"]
                      ELSE [@ EXCEPT !.pc = "store1"]]
    /\ UNCHANGED << words, lenFirst >>
    /\ UNCHANGED << nameVars, subVars, cacheVars, chanVars >>

\* lines 26, 40, 53: the composed string is stored, first word
race_store1(g) ==
    /\ Running
    /\ gor[g].pc = "store1"
    /\ LET v == StringOf(Composing(g))
       IN  words' = [words EXCEPT ![gor[g].f] =
                       IF lenFirst THEN [@ EXCEPT !.len = v.len]
                                   ELSE [@ EXCEPT !.data = v.data]]
    /\ gor' = [gor EXCEPT ![g].pc = "store2"]
    /\ UNCHANGED lenFirst
    /\ UNCHANGED << nameVars, subVars, cacheVars, chanVars >>

\* second word
race_store2(g) ==
    /\ Running
    /\ gor[g].pc = "store2"
    /\ LET v == StringOf(Composing(g))
       IN  words' = [words EXCEPT ![gor[g].f] =
                       IF lenFirst THEN [@ EXCEPT !.data = v.data]
                                   ELSE [@ EXCEPT !.len = v.len]]
    /\ gor' = [gor EXCEPT ![g].pc = "load1"]
    /\ UNCHANGED lenFirst
    /\ UNCHANGED << nameVars, subVars, cacheVars, chanVars >>

\* lines 28, 42, 55: return s.<field> loads the two words, in either order
race_load1(g) ==
    /\ Running
    /\ gor[g].pc = "load1"
    /\ \E w \in {"data", "len"} :
         gor' = [gor EXCEPT ![g] =
                   [@ EXCEPT !.pc = "load2", !.first = w,
                             !.got = [NoString EXCEPT ![w] = words[gor[g].f][w]]]]
    /\ UNCHANGED << words, lenFirst >>
    /\ UNCHANGED << nameVars, subVars, cacheVars, chanVars >>

\* the second word; the value goes to the caller, or, inside
\* ServiceInstanceName, into the Sprintf of line 40
race_load2(g) ==
    /\ Running
    /\ gor[g].pc = "load2"
    /\ LET w == IF gor[g].first = "data" THEN "len" ELSE "data"
           val == [gor[g].got EXCEPT ![w] = words[gor[g].f][w]]
       IN  gor' = [gor EXCEPT ![g] =
                     IF gor[g].acc = "ServiceInstanceName" /\ gor[g].f = "serviceName"
                     THEN IF Torn(val)
                          THEN [@ EXCEPT !.pc = "crashed"]
                          ELSE [@ EXCEPT !.pc = "store1", !.inner = val,
                                         !.f = "serviceInstanceName",
                                         !.got = NoString, !.first = "none"]
                     ELSE [@ EXCEPT !.pc = "done", !.out = val,
                                    !.got = NoString, !.first = "none"]]
    /\ UNCHANGED << words, lenFirst >>
    /\ UNCHANGED << nameVars, subVars, cacheVars, chanVars >>

----------------------------------------------------------------------------
(* LookupParams *)

NCallers       == 3    \* goroutines calling done() / disableProbing()
MaxInvocations == 2    \* calls each of them makes, one after the other

Callers == 1..NCallers

\* NewLookupParams (service.go 72-79): entries is the caller's channel (it may
\* be nil), stopProbing is made open and the Once is the zero value.
NewLookupParams(entriesIsNil) ==
    [ EntriesNil |-> entriesIsNil, EntriesClosed |-> FALSE, entriesCloses |-> 0,
      stopClosed |-> FALSE, stopCloses |-> 0,
      onceDone |-> FALSE, onceM |-> 0 ]

SubInit ==
    /\ lp \in { NewLookupParams(n) : n \in BOOLEAN }
    /\ cpc = [c \in Callers |-> "idle"]
    /\ ncalls = [c \in Callers |-> 0]
    /\ finished = [c \in Callers |-> [done |-> 0, disableProbing |-> 0]]
    /\ panicIn = "none"

\* A caller may start a call while the process runs (an unrecovered panic ends it).
CanCall(c) ==
    /\ panicIn = "none"
    /\ cpc[c] = "idle"
    /\ ncalls[c] < MaxInvocations

Returns(c, method) ==
    /\ cpc' = [cpc EXCEPT ![c] = "idle"]
    /\ finished' = [finished EXCEPT ![c][method] = @ + 1]

\* done (service.go 83-87), the test of line 84
done_call(c) ==
    /\ CanCall(c)
    /\ ncalls' = [ncalls EXCEPT ![c] = @ + 1]
    /\ IF lp.EntriesNil
       THEN Returns(c, "done")
       ELSE cpc' = [cpc EXCEPT ![c] = "done_close"] /\ UNCHANGED finished
    /\ UNCHANGED << lp, panicIn >>
    /\ UNCHANGED << nameVars, cacheVars, chanVars, raceVars >>

\* done ending the probing as well: close(l.Entries) and close(l.stopProbing).
done_close_both(c) ==
    /\ panicIn = "none"
    /\ cpc[c] = "done_close"
    /\ IF lp.EntriesClosed \/ lp.stopClosed
       THEN /\ panicIn' = "done"
            /\ cpc' = [cpc EXCEPT ![c] = "panicked"]
            /\ UNCHANGED << lp, finished >>
       ELSE /\ lp' = [lp EXCEPT !.EntriesClosed = TRUE, !.entriesCloses = @ + 1,
                                !.stopClosed = TRUE, !.stopCloses = @ + 1]
            /\ Returns(c, "done")
            /\ UNCHANGED panicIn
    /\ UNCHANGED ncalls
    /\ UNCHANGED << nameVars, cacheVars, chanVars, raceVars >>

\* done, line 85: close(l.Entries); closing a closed channel panics.
done_close(c) ==
    /\ panicIn = "none"
    /\ cpc[c] = "done_close"
    /\ IF lp.EntriesClosed
       THEN /\ panicIn' = "done"
            /\ cpc' = [cpc EXCEPT ![c] = "panicked"]
            /\ UNCHANGED << lp, finished >>
       ELSE /\ lp' = [lp EXCEPT !.EntriesClosed = TRUE, !.entriesCloses = @ + 1]
            /\ Returns(c, "done")
            /\ UNCHANGED panicIn
    /\ UNCHANGED ncalls
    /\ UNCHANGED << nameVars, cacheVars, chanVars, raceVars >>

\* disableProbing with the Once left out: close(l.stopProbing) on every call.
disableProbing_unguarded(c) ==
    /\ CanCall(c)
    /\ ncalls' = [ncalls EXCEPT ![c] = @ + 1]
    /\ IF lp.stopClosed
       THEN /\ panicIn' = "disableProbing"
            /\ cpc' = [cpc EXCEPT ![c] = "panicked"]
            /\ UNCHANGED << lp, finished >>
       ELSE /\ lp' = [lp EXCEPT !.stopClosed = TRUE, !.stopCloses = @ + 1]
            /\ Returns(c, "disableProbing")
            /\ UNCHANGED panicIn
    /\ UNCHANGED << nameVars, cacheVars, chanVars, raceVars >>

\* disableProbing (service.go 89-91): enters l.once.Do
disableProbing_call(c) ==
    /\ CanCall(c)
    /\ ncalls' = [ncalls EXCEPT ![c] = @ + 1]
    /\ cpc' = [cpc EXCEPT ![c] = "once_fast"]
    /\ UNCHANGED << lp, finished, panicIn >>
    /\ UNCHANGED << nameVars, cacheVars, chanVars, raceVars >>

\* sync.Once.Do: the fast path reads done without the mutex.
once_fast(c) ==
    /\ panicIn = "none"
    /\ cpc[c] = "once_fast"
    /\ IF lp.onceDone
       THEN Returns(c, "disableProbing")
       ELSE cpc' = [cpc EXCEPT ![c] = "once_lock"] /\ UNCHANGED finished
    /\ UNCHANGED << lp, ncalls, panicIn >>
    /\ UNCHANGED << nameVars, cacheVars, chanVars, raceVars >>

\* sync.Once.doSlow: o.m.Lock()
once_lock(c) ==
    /\ panicIn = "none"
    /\ cpc[c] = "once_lock"
    /\ lp.onceM = 0
    /\ lp' = [lp EXCEPT !.onceM = c]
    /\ cpc' = [cpc EXCEPT ![c] = "once_slow"]
    /\ UNCHANGED << ncalls, finished, panicIn >>
    /\ UNCHANGED << nameVars, cacheVars, chanVars, raceVars >>

\* sync.Once.doSlow: the second read of done, under the mutex
once_slow(c) ==
    /\ panicIn = "none"
    /\ cpc[c] = "once_slow"
    /\ cpc' = [cpc EXCEPT ![c] = IF lp.onceDone THEN "once_unlock" ELSE "once_f"]
    /\ UNCHANGED << lp, ncalls, finished, panicIn >>
    /\ UNCHANGED << nameVars, cacheVars, chanVars, raceVars >>

\* the function given to Do: close(l.stopProbing)
once_f(c) ==
    /\ panicIn = "none"
    /\ cpc[c] = "once_f"
    /\ IF lp.stopClosed
       THEN /\ panicIn' = "disableProbing"
            /\ cpc' = [cpc EXCEPT ![c] = "panicked"]
            /\ UNCHANGED lp
       ELSE /\ lp' = [lp EXCEPT !.stopClosed = TRUE, !.stopCloses = @ + 1]
            /\ cpc' = [cpc EXCEPT ![c] = "once_store"]
            /\ UNCHANGED panicIn
    /\ UNCHANGED << ncalls, finished >>
    /\ UNCHANGED << nameVars, cacheVars, chanVars, raceVars >>

\* sync.Once.doSlow: the deferred o.done.Store(1)
once_store(c) ==
    /\ panicIn = "none"
    /\ cpc[c] = "once_store"
    /\ lp' = [lp EXCEPT !.onceDone = TRUE]
    /\ cpc' = [cpc EXCEPT ![c] = "once_unlock"]
    /\ UNCHANGED << ncalls, finished, panicIn >>
    /\ UNCHANGED << nameVars, cacheVars, chanVars, raceVars >>

\* sync.Once.doSlow: the deferred o.m.Unlock(), then disableProbing returns
once_unlock(c) ==
    /\ panicIn = "none"
    /\ cpc[c] = "once_unlock"
    /\ lp' = [lp EXCEPT !.onceM = 0]
    /\ Returns(c, "disableProbing")
    /\ UNCHANGED << ncalls, panicIn >>
    /\ UNCHANGED << nameVars, cacheVars, chanVars, raceVars >>

----------------------------------------------------------------------------
(* The Entries channel: the producer that sends on it, the consumer that     *)
(* receives from it.  Channel operations are Go's: a send completes when a   *)
(* receiver is waiting or the buffer has room, a receive takes the buffered  *)
(* values in order and, on a closed and empty channel, reports the end.      *)

MaxCap     == 1    \* largest capacity of the Entries channel (0: unbuffered)
MaxEntries == 3    \* entries the producer has to deliver

\* The caller that is the protocol layer: it delivers, then calls done().
Producer == 1

\* The entries are numbered in the order they are delivered.
ChanInit ==
    /\ ch \in { [cap |-> c, buf |-> << >>] : c \in 0..MaxCap }
    /\ sent = 0
    /\ cons = [pc |-> "idle", got |-> << >>]

\* A delivery that gives up when it would have to wait:
\* select { case l.Entries <- e: default: }
deliver_dropping ==
    /\ panicIn = "none"
    /\ ~lp.EntriesNil
    /\ ncalls[Producer] = 0
    /\ sent < MaxEntries
    /\ sent' = sent + 1
    /\ IF lp.EntriesClosed
       THEN /\ panicIn' = "deliver"
            /\ UNCHANGED << ch, cons >>
       ELSE /\ UNCHANGED panicIn
            /\ IF cons.pc = "recv" /\ ch.buf = << >>
               THEN /\ cons' = [pc |-> "idle", got |-> Append(cons.got, sent + 1)]
                    /\ UNCHANGED ch
               ELSE IF Len(ch.buf) < ch.cap
                    THEN /\ ch' = [ch EXCEPT !.buf = Append(@, sent + 1)]
                         /\ UNCHANGED cons
                    ELSE UNCHANGED << ch, cons >>
    /\ UNCHANGED << lp, cpc, ncalls, finished >>
    /\ UNCHANGED << nameVars, cacheVars, raceVars >>

\* deliver: l.Entries <- e, by the producer while it has not called done().
\* The send waits (the action is not enabled) until the consumer is in its
\* receive or the buffer has room; on a nil channel it waits forever; on a
\* closed channel it panics.
deliver ==
    /\ panicIn = "none"
    /\ ~lp.EntriesNil
    /\ ncalls[Producer] = 0
    /\ sent < MaxEntries
    /\ IF lp.EntriesClosed
       THEN /\ panicIn' = "deliver"
            /\ UNCHANGED << ch, sent, cons >>
       ELSE /\ UNCHANGED panicIn
            /\ \/ /\ cons.pc = "recv" /\ ch.buf = << >>
                  /\ cons' = [pc |-> "idle", got |-> Append(cons.got, sent + 1)]
                  /\ UNCHANGED ch
               \/ /\ ~(cons.pc = "recv" /\ ch.buf = << >>)
                  /\ Len(ch.buf) < ch.cap
                  /\ ch' = [ch EXCEPT !.buf = Append(@, sent + 1)]
                  /\ UNCHANGED cons
            /\ sent' = sent + 1
    /\ UNCHANGED << lp, cpc, ncalls, finished >>
    /\ UNCHANGED << nameVars, cacheVars, raceVars >>

\* the consumer enters a receive: e, ok := <-entries
cons_recv_call ==
    /\ panicIn = "none"
    /\ cons.pc = "idle"
    /\ cons' = [cons EXCEPT !.pc = "recv"]
    /\ UNCHANGED << ch, sent >>
    /\ UNCHANGED << nameVars, subVars, cacheVars, raceVars >>

\* the receive takes the oldest buffered value
cons_recv ==
    /\ panicIn = "none"
    /\ cons.pc = "recv"
    /\ ch.buf # << >>
    /\ cons' = [pc |-> "idle", got |-> Append(cons.got, Head(ch.buf))]
    /\ ch' = [ch EXCEPT !.buf = Tail(@)]
    /\ UNCHANGED sent
    /\ UNCHANGED << nameVars, subVars, cacheVars, raceVars >>

\* the receive on the closed and drained channel: ok is false, the consumer
\* leaves its loop
cons_recv_closed ==
    /\ panicIn = "none"
    /\ cons.pc = "recv"
    /\ ch.buf = << >>
    /\ lp.EntriesClosed
    /\ cons' = [cons EXCEPT !.pc = "stopped"]
    /\ UNCHANGED << ch, sent >>
    /\ UNCHANGED << nameVars, subVars, cacheVars, raceVars >>

----------------------------------------------------------------------------
(* entryCache and Browser *)

NKeys     == 2    \* cache keys; writer w works on key w alone (disjoint keys)
MaxWrites == 3    \* upsert / remove operations, all writers together
MaxTime   == 2    \* clock ticks

Keys    == 1..NKeys
Writers == Keys
\* The goroutines calling Browser.Entries.
Readers == {1, 2}

\* ServiceEventType (service.go 96-101)
NewOrUpdated == "NewOrUpdated"
Removed      == "Removed"

\* What the protocol layer observed of a service: the values an upsert writes.
Observations ==
    { [HostName |-> 1, Port |-> 1, TTL |-> 1, Text |-> <<1>>, AddrIPv4 |-> <<1>>],
      [HostName |-> 2, Port |-> 2, TTL |-> 2, Text |-> <<2>>, AddrIPv4 |-> <<2>>] }

\* Values a caller may write into a copy it was given.
Vals == {1, 2}

SliceFields == {"Text", "AddrIPv4"}
TimeFields  == {"refreshTime", "expiryTime"}

\* NewServiceEntry (service.go 150-154): the identity set, every other field zero.
\* A slice or pointer field holds a reference into the heap, 0 for nil.
NewServiceEntry(k) ==
    [ key |-> k, HostName |-> 0, Port |-> 0, TTL |-> 0, Text |-> 0, AddrIPv4 |-> 0,
      eventType |-> "", refreshTime |-> 0, expiryTime |-> 0 ]

NoEntries == [k \in {} |-> NewServiceEntry(k)]

Put(m, k, v) == [x \in DOMAIN m \cup {k} |-> IF x = k THEN v ELSE m[x]]
Del(m, k)    == [x \in DOMAIN m \ {k} |-> m[x]]

\* ---- the heap: backing arrays of slices, and the time.Time values pointed to ----

EmptyHeap == [arrays |-> [x \in {} |-> << >>], times |-> [x \in {} |-> 0]]

\* The lowest reference not in use.
Fresh(used) ==
    CHOOSE x \in 1..(Cardinality(used) + 1) :
       x \notin used /\ \A y \in 1..(x - 1) : y \in used

RefsOf(e, fields) == { e[f] : f \in fields } \ {0}

\* The references held by the cache's entries and by the slices callers hold.
Live(ents, res, fields) ==
    UNION { RefsOf(ents[k], fields) : k \in DOMAIN ents }
    \cup UNION { UNION { RefsOf(res[r][i], fields) : i \in 1..Len(res[r]) } :
                 r \in DOMAIN res }

\* Garbage collection: what nothing refers to is gone.
Collect(h, ents, res) ==
    [ arrays |-> [x \in DOMAIN h.arrays \cap Live(ents, res, SliceFields) |-> h.arrays[x]],
      times  |-> [x \in DOMAIN h.times \cap Live(ents, res, TimeFields) |-> h.times[x]] ]

IdleWriter == [pc |-> "idle", op |-> "none", obs |-> 0]

CacheInit ==
    /\ cacheNil \in BOOLEAN
    /\ entries = NoEntries
    /\ heap = EmptyHeap
    /\ rw = [readers |-> {}, writer |-> 0, pending |-> 0]
    /\ rpc = [r \in Readers |-> "idle"]
    /\ visited = [r \in Readers |-> {}]
    /\ result = [r \in Readers |-> << >>]
    /\ wr = [w \in Writers |-> IdleWriter]
    /\ nwrites = 0
    /\ now = 0
    /\ hist = [ committed |-> NoEntries,
                net       |-> [k \in Keys |-> FALSE],
                atLock    |-> [r \in Readers |-> NoEntries],
                callTime  |-> [r \in Readers |-> 0],
                quiet     |-> [r \in Readers |-> FALSE],
                failed    |-> [r \in Readers |-> FALSE] ]

\* ---- the writers: upsert and remove, each under the exclusive lock ----

\* b.cache.Lock(), called for one upsert or remove of the writer's key: once
\* no other writer holds or awaits the lock (sync.RWMutex serialises writers
\* on its inner mutex) the writer announces itself, and from then on RLock
\* calls wait.
cache_Lock(w) ==
    /\ ~cacheNil
    /\ wr[w].pc = "idle"
    /\ nwrites < MaxWrites
    /\ nwrites' = nwrites + 1
    /\ rw.writer = 0 /\ rw.pending = 0
    /\ \E op \in {"upsert", "remove"} :
         \E obs \in (IF op = "upsert" THEN Observations ELSE {0}) :
            wr' = [wr EXCEPT ![w] = [pc |-> "waiting", op |-> op, obs |-> obs]]
    /\ rw' = [rw EXCEPT !.pending = w]
    /\ hist' = [hist EXCEPT !.quiet = [r \in Readers |-> FALSE]]
    /\ UNCHANGED << cacheNil, entries, heap, rpc, visited, result, now >>
    /\ UNCHANGED << nameVars, subVars, chanVars, raceVars >>

\* Lock() returns: the readers that held the lock when it was called have
\* all released it.
cache_Locked(w) ==
    /\ wr[w].pc = "waiting"
    /\ rw.pending = w
    /\ rw.readers = {}
    /\ rw' = [rw EXCEPT !.writer = w, !.pending = 0]
    /\ wr' = [wr EXCEPT ![w].pc = "locked"]
    /\ UNCHANGED << cacheNil, entries, heap, rpc, visited, result, now, hist, nwrites >>
    /\ UNCHANGED << nameVars, subVars, chanVars, raceVars >>

\* first half of the write: an upsert creates the entry if the key is new and
\* overwrites the plain fields; a remove marks the entry Removed.
cache_write1(w) ==
    /\ wr[w].pc = "locked"
    /\ LET k == w
           old == IF k \in DOMAIN entries THEN entries[k] ELSE NewServiceEntry(k)
           obs == wr[w].obs
       IN  entries' =
             IF wr[w].op = "upsert"
             THEN Put(entries, k, [old EXCEPT !.HostName = obs.HostName,
                                              !.Port = obs.Port, !.TTL = obs.TTL])
             ELSE IF k \in DOMAIN entries
                  THEN Put(entries, k, [old EXCEPT !.eventType = Removed])
                  ELSE entries
    /\ wr' = [wr EXCEPT ![w].pc = "half"]
    /\ UNCHANGED << cacheNil, heap, rw, rpc, visited, result, now, hist, nwrites >>
    /\ UNCHANGED << nameVars, subVars, chanVars, raceVars >>

\* second half: an upsert stores fresh slices and timestamps and sets the event
\* kind; a remove deletes the key (a no-op when it is absent).
cache_write2(w) ==
    /\ wr[w].pc = "half"
    /\ LET k == w
           obs == wr[w].obs
           a1 == Fresh(DOMAIN heap.arrays)
           a2 == Fresh(DOMAIN heap.arrays \cup {a1})
           t1 == Fresh(DOMAIN heap.times)
           t2 == Fresh(DOMAIN heap.times \cup {t1})
           grown == [ arrays |-> Put(Put(heap.arrays, a1, obs.Text), a2, obs.AddrIPv4),
                      times  |-> Put(Put(heap.times, t1, now + obs.TTL - 1),
                                     t2, now + obs.TTL) ]
       IN  /\ entries' =
                IF wr[w].op = "upsert"
                THEN Put(entries, k,
                         [entries[k] EXCEPT !.Text = a1, !.AddrIPv4 = a2,
                                            !.refreshTime = t1, !.expiryTime = t2,
                                            !.eventType = NewOrUpdated])
                ELSE Del(entries, k)
           /\ heap' = Collect(IF wr[w].op = "upsert" THEN grown ELSE heap,
                              entries', result)
    /\ wr' = [wr EXCEPT ![w].pc = "written"]
    /\ UNCHANGED << cacheNil, rw, rpc, visited, result, now, hist, nwrites >>
    /\ UNCHANGED << nameVars, subVars, chanVars, raceVars >>

\* b.cache.Unlock(): the write is complete
cache_Unlock(w) ==
    /\ wr[w].pc = "written"
    /\ rw' = [rw EXCEPT !.writer = 0]
    /\ wr' = [wr EXCEPT ![w] = IdleWriter]
    /\ hist' = [hist EXCEPT
                  !.committed = entries,
                  !.net = [@ EXCEPT ![w] = (wr[w].op = "upsert")]]
    /\ UNCHANGED << cacheNil, entries, heap, rpc, visited, result, now, nwrites >>
    /\ UNCHANGED << nameVars, subVars, chanVars, raceVars >>

\* the clock
Tick ==
    /\ now < MaxTime
    /\ now' = now + 1
    /\ UNCHANGED << cacheNil, entries, heap, rw, rpc, visited, result, wr, hist, nwrites >>
    /\ UNCHANGED << nameVars, subVars, chanVars, raceVars >>

\* ---- Browser.Entries (service.go 136-147), one reader's call ----

\* Entries with the nil test forgotten: b.cache.RLock() on a nil cache panics.
Entries_call_unchecked(r) ==
    /\ rpc[r] = "idle"
    /\ rpc' = [rpc EXCEPT ![r] = IF cacheNil THEN "panicked" ELSE "rlock"]
    /\ hist' = [hist EXCEPT
                  !.callTime[r] = now,
                  !.quiet[r] = \A w \in Writers : wr[w].pc = "idle",
                  !.failed[r] = cacheNil]
    /\ UNCHANGED << cacheNil, entries, heap, rw, visited, result, wr, now, nwrites >>
    /\ UNCHANGED << nameVars, subVars, chanVars, raceVars >>

\* line 137: the nil test; a nil cache returns nil at line 146
Entries_call(r) ==
    /\ rpc[r] = "idle"
    /\ rpc' = [rpc EXCEPT ![r] = IF cacheNil THEN "returned" ELSE "rlock"]
    /\ hist' = [hist EXCEPT
                  !.callTime[r] = now,
                  !.quiet[r] = \A w \in Writers : wr[w].pc = "idle"]
    /\ UNCHANGED << cacheNil, entries, heap, rw, visited, result, wr, now, nwrites >>
    /\ UNCHANGED << nameVars, subVars, chanVars, raceVars >>

\* Entries reading without waiting for the writer (the lock not taken).
Entries_RLock_unguarded(r) ==
    /\ rpc[r] = "rlock"
    /\ rw' = [rw EXCEPT !.readers = @ \cup {r}]
    /\ rpc' = [rpc EXCEPT ![r] = "range"]
    /\ hist' = [hist EXCEPT !.atLock[r] = hist.committed]
    /\ UNCHANGED << cacheNil, entries, heap, visited, result, wr, now, nwrites >>
    /\ UNCHANGED << nameVars, subVars, chanVars, raceVars >>

\* The shared lock taken as an exclusive one: b.cache.Lock() for RLock().
Entries_RLock_exclusive(r) ==
    /\ rpc[r] = "rlock"
    /\ rw.writer = 0 /\ rw.pending = 0 /\ rw.readers = {}
    /\ rw' = [rw EXCEPT !.readers = @ \cup {r}]
    /\ rpc' = [rpc EXCEPT ![r] = "range"]
    /\ hist' = [hist EXCEPT !.atLock[r] = hist.committed]
    /\ UNCHANGED << cacheNil, entries, heap, visited, result, wr, now, nwrites >>
    /\ UNCHANGED << nameVars, subVars, chanVars, raceVars >>

\* line 139: b.cache.RLock() waits while a writer holds or awaits the lock,
\* and never for another reader
Entries_RLock(r) ==
    /\ rpc[r] = "rlock"
    /\ rw.writer = 0 /\ rw.pending = 0
    /\ rw' = [rw EXCEPT !.readers = @ \cup {r}]
    /\ rpc' = [rpc EXCEPT ![r] = "range"]
    /\ hist' = [hist EXCEPT !.atLock[r] = hist.committed]
    /\ UNCHANGED << cacheNil, entries, heap, visited, result, wr, now, nwrites >>
    /\ UNCHANGED << nameVars, subVars, chanVars, raceVars >>

\* The loop body assigning instead of appending: r = []ServiceEntry{*v}.
Entries_range_overwrite(r) ==
    /\ rpc[r] = "range"
    /\ \E k \in DOMAIN entries \ visited[r] :
         /\ result' = [result EXCEPT ![r] = << entries[k] >>]
         /\ visited' = [visited EXCEPT ![r] = @ \cup {k}]
    /\ UNCHANGED << cacheNil, entries, heap, rw, rpc, wr, now, hist, nwrites >>
    /\ UNCHANGED << nameVars, subVars, chanVars, raceVars >>

\* lines 140-142: one iteration of the range loop, in any key order;
\* r = append(r, *v) copies the struct, so slices and pointers are shared.
Entries_range(r) ==
    /\ rpc[r] = "range"
    /\ \E k \in DOMAIN entries \ visited[r] :
         /\ result' = [result EXCEPT ![r] = Append(@, entries[k])]
         /\ visited' = [visited EXCEPT ![r] = @ \cup {k}]
    /\ UNCHANGED << cacheNil, entries, heap, rw, rpc, wr, now, hist, nwrites >>
    /\ UNCHANGED << nameVars, subVars, chanVars, raceVars >>

\* Entries returning with the read lock still held (RUnlock forgotten).
Entries_RUnlock_forgotten(r) ==
    /\ rpc[r] = "range"
    /\ DOMAIN entries \ visited[r] = {}
    /\ rpc' = [rpc EXCEPT ![r] = "returned"]
    /\ UNCHANGED << cacheNil, entries, heap, rw, visited, result, wr, now, hist, nwrites >>
    /\ UNCHANGED << nameVars, subVars, chanVars, raceVars >>

\* lines 143-144: the loop is over, b.cache.RUnlock() and return r;
\* the caller now holds the slice.
Entries_RUnlock(r) ==
    /\ rpc[r] = "range"
    /\ DOMAIN entries \ visited[r] = {}
    /\ rw' = [rw EXCEPT !.readers = @ \ {r}]
    /\ rpc' = [rpc EXCEPT ![r] = "returned"]
    /\ UNCHANGED << cacheNil, entries, heap, visited, result, wr, now, hist, nwrites >>
    /\ UNCHANGED << nameVars, subVars, chanVars, raceVars >>

\* ---- the caller of Entries, holding the slice it was given ----

\* The caller writes into the i-th ServiceEntry of the slice.
MutateCopy(r) ==
    /\ rpc[r] = "returned"
    /\ \E i \in 1..Len(result[r]) : \E v \in Vals :
         \/ /\ result' = [result EXCEPT ![r][i].Port = v]      \* e.Port = v
            /\ UNCHANGED heap
         \/ \E f \in SliceFields :                               \* e.Text[0] = v
              /\ result[r][i][f] # 0
              /\ heap' = [heap EXCEPT !.arrays[result[r][i][f]] = <<v>>]
              /\ UNCHANGED result
         \/ \E f \in TimeFields :                                \* *e.expiryTime = v
              /\ result[r][i][f] # 0
              /\ heap' = [heap EXCEPT !.times[result[r][i][f]] = v]
              /\ UNCHANGED result
    /\ UNCHANGED << cacheNil, entries, rw, rpc, visited, wr, now, hist, nwrites >>
    /\ UNCHANGED << nameVars, subVars, chanVars, raceVars >>

\* The caller lets go of the slice.
Caller_release(r) ==
    /\ rpc[r] = "returned"
    /\ rpc' = [rpc EXCEPT ![r] = "idle"]
    /\ result' = [result EXCEPT ![r] = << >>]
    /\ visited' = [visited EXCEPT ![r] = {}]
    /\ heap' = Collect(heap, entries, result')
    /\ hist' = [hist EXCEPT !.atLock[r] = NoEntries, !.callTime[r] = 0,
                            !.quiet[r] = FALSE]
    /\ UNCHANGED << cacheNil, entries, rw, wr, now, nwrites >>
    /\ UNCHANGED << nameVars, subVars, chanVars, raceVars >>

----------------------------------------------------------------------------
(* Specifications *)

NameNext ==
    \/ CallServiceName
    \/ CallServiceInstanceName
    \/ CallServiceTypeName

SubNext ==
    \E c \in Callers :
       \/ done_call(c)
       \/ done_close(c)
       \/ disableProbing_call(c)
       \/ once_fast(c)
       \/ once_lock(c)
       \/ once_slow(c)
       \/ once_f(c)
       \/ once_store(c)
       \/ once_unlock(c)

CacheNext ==
    \/ \E w \in Writers :
          \/ cache_Lock(w)
          \/ cache_Locked(w)
          \/ cache_write1(w)
          \/ cache_write2(w)
          \/ cache_Unlock(w)
    \/ \E r \in Readers :
          \/ Entries_call(r)
          \/ Entries_RLock(r)
          \/ Entries_range(r)
          \/ Entries_RUnlock(r)
          \/ Caller_release(r)

\* One writer, one reader and the clock.
ExpiryNext ==
    \/ cache_Lock(1)
    \/ cache_Locked(1)
    \/ cache_write1(1)
    \/ cache_write2(1)
    \/ cache_Unlock(1)
    \/ Entries_call(1)
    \/ Entries_RLock(1)
    \/ Entries_range(1)
    \/ Entries_RUnlock(1)
    \/ Caller_release(1)
    \/ Tick

\* One writer, one reader, and the reader's caller writing into what it was given.
AliasNext ==
    \/ cache_Lock(1)
    \/ cache_Locked(1)
    \/ cache_write1(1)
    \/ cache_write2(1)
    \/ cache_Unlock(1)
    \/ Entries_call(1)
    \/ Entries_RLock(1)
    \/ Entries_range(1)
    \/ Entries_RUnlock(1)
    \/ Caller_release(1)
    \/ MutateCopy(1)

\* The accessors, and the record's holder reassigning its fields in between.
StaleNext ==
    \/ CallServiceName
    \/ CallServiceInstanceName
    \/ CallServiceTypeName
    \/ SetField

\* One subscription with its producer, which delivers and then calls done(),
\* and its consumer.
ConsumerStep == cons_recv_call \/ cons_recv \/ cons_recv_closed

ChanNext ==
    \/ deliver
    \/ done_call(Producer)
    \/ done_close(Producer)
    \/ cons_recv_call
    \/ cons_recv
    \/ cons_recv_closed

\* Goroutines calling the accessors on one record with nothing in between.
RaceNext ==
    \E g \in Goroutines :
       \/ race_call(g)
       \/ race_check(g)
       \/ race_store1(g)
       \/ race_store2(g)
       \/ race_load1(g)
       \/ race_load2(g)

\* A fixed record, subscription and cache for the specifications that do not
\* move them.
NameFixed  == NameInit /\ record = NewServiceRecord(MyPrinter, HttpTcp, Local)
SubFixed   == SubInit /\ lp = NewLookupParams(FALSE)
CacheFixed == CacheInit /\ ~cacheNil
ChanFixed  == ChanInit /\ ch.cap = 0
RaceFixed  == RaceInit /\ ~lenFirst

\* The records the goroutines share: with and without an instance, with and
\* without a domain.
RaceRecords ==
    { NewServiceRecord(i, HttpTcp, d) :
        i \in {<< >>, MyPrinter}, d \in {<< >>, Local \o <<Dot>>} }

NamesInit == NameInit /\ SubFixed /\ CacheFixed /\ ChanFixed /\ RaceFixed
SubsInit  == NameFixed /\ SubInit /\ CacheFixed /\ ChanFixed /\ RaceFixed
CachesInit == NameFixed /\ SubFixed /\ CacheInit /\ ChanFixed /\ RaceFixed
AliasInit == NameFixed /\ SubFixed /\ CacheFixed /\ ChanFixed /\ RaceFixed
ChansInit == NameFixed /\ SubFixed /\ CacheFixed /\ ChanInit /\ RaceFixed
RacesInit ==
    /\ NameInit /\ record \in RaceRecords
    /\ SubFixed /\ CacheFixed /\ ChanFixed /\ RaceInit

SpecNames == NamesInit /\ [][NameNext]_vars
SpecSub   == SubsInit /\ [][SubNext]_vars
SpecCache == CachesInit /\ [][CacheNext]_vars
SpecAlias == AliasInit /\ [][AliasNext]_vars
StalesInit == StaleInit /\ SubFixed /\ CacheFixed /\ ChanFixed /\ RaceFixed
SpecChan   == ChansInit /\ [][ChanNext]_vars
\* The consumer keeps reading: a receive it can make is eventually made.
SpecChanFair == ChansInit /\ [][ChanNext]_vars /\ WF_vars(ConsumerStep)
SpecRace   == RacesInit /\ [][RaceNext]_vars
SpecStale  == StalesInit /\ [][StaleNext]_vars
SpecExpiry == AliasInit /\ [][ExpiryNext]_vars

Init == NameInit /\ SubInit /\ CacheInit /\ ChanInit /\ RaceInit

\* The whole program: the three parts side by side.
Next ==
    \/ NameNext \/ SetField \/ RaceNext
    \/ SubNext \/ ChanNext
    \/ CacheNext \/ Tick \/ (\E r \in Readers : MutateCopy(r))

Spec == Init /\ [][Next]_vars

----------------------------------------------------------------------------
(* Claims about LookupParams, under SpecSub *)

SomeoneFinished(method) == \E c \in Callers : finished[c][method] > 0

\* C1: however many times done() is called on one subscription, one after the
\* other or by concurrent callers, the Entries channel is closed exactly once
\* and no call panics on a double close.
C1_DoneClosesOnce ==
    /\ panicIn # "done"
    /\ lp.entriesCloses <= 1
    /\ (SomeoneFinished("done") /\ ~lp.EntriesNil => lp.entriesCloses = 1)

\* C2: however many times disableProbing() is called on one subscription, one
\* after the other or concurrently, stopProbing is closed exactly once, by the
\* first call to get there; later calls change nothing and no call panics.
C2_StopProbingClosedOnce ==
    /\ panicIn # "disableProbing"
    /\ lp.stopCloses <= 1
    /\ (SomeoneFinished("disableProbing") => lp.stopClosed /\ lp.stopCloses = 1)

\* Two callers have returned from disableProbing, one of them twice.
C2_Witness ==
    \E c, d \in Callers :
       /\ c # d
       /\ finished[c].disableProbing >= 2
       /\ finished[d].disableProbing >= 1
       /\ lp.stopCloses = 1

\* A step of done(), and a step of disableProbing(), by any caller.
DoneStep == \E c \in Callers : done_call(c) \/ done_close(c)

DisableProbingStep ==
    \E c \in Callers :
       \/ disableProbing_call(c)
       \/ once_fast(c)
       \/ once_lock(c)
       \/ once_slow(c)
       \/ once_f(c)
       \/ once_store(c)
       \/ once_unlock(c)

\* C18 (SpecSub): no step of disableProbing() changes the Entries channel (open
\* stays open, closed stays closed), no step of done() changes stopProbing or
\* the state of the Once, and neither changes the subscription's ServiceRecord.
C18_TerminalActionsIndependent ==
    [][ /\ DisableProbingStep =>
             /\ lp'.EntriesNil = lp.EntriesNil
             /\ lp'.EntriesClosed = lp.EntriesClosed
             /\ lp'.entriesCloses = lp.entriesCloses
             /\ record' = record
        /\ DoneStep =>
             /\ lp'.stopClosed = lp.stopClosed
             /\ lp'.stopCloses = lp.stopCloses
             /\ lp'.onceDone = lp.onceDone
             /\ lp'.onceM = lp.onceM
             /\ record' = record ]_vars

\* Both terminal actions have run to completion on one subscription: each
\* channel was closed once.
C18_Witness ==
    /\ SomeoneFinished("done")
    /\ SomeoneFinished("disableProbing")
    /\ lp.EntriesClosed /\ lp.entriesCloses = 1
    /\ lp.stopClosed /\ lp.stopCloses = 1
    /\ record = NewServiceRecord(MyPrinter, HttpTcp, Local)

----------------------------------------------------------------------------
(* Claims about the Entries channel, under SpecChan and SpecChanFair *)

\* C12 (SpecChanFair): once done() has closed the Entries channel, a consumer
\* that keeps reading eventually receives "no more values" and stops, whatever
\* was delivered before the close.
C12_ClosedLeadsToStopped == lp.EntriesClosed ~> (cons.pc = "stopped")

\* What does hold of C12 (SpecChanFair): the consumer stops unless the process
\* panics first, and in this model only a second done() panics.
C12_StoppedUnlessPanic ==
    lp.EntriesClosed ~> (cons.pc = "stopped" \/ panicIn = "done")

\* The entries delivered so far, in delivery order.
Delivered == [i \in 1..sent |-> i]

----------------------------------------------------------------------------
(* Claims about ServiceRecord, under SpecNames *)

Returned(accessor) == { rets[accessor][i] : i \in 1..Len(rets[accessor]) }

\* "My Printer._http._tcp.local."
MyPrinterInstanceName ==
    MyPrinter \o <<Dot>> \o HttpTcp \o <<Dot>> \o Local \o <<Dot>>

\* C8: ServiceName() returns <service>.<domain-or-default>. with the trailing
\* delimiter of each component trimmed, the default domain "local" standing in
\* when, and only when, Domain is empty.
C8_ServiceNameDefaultsDomain ==
    \A v \in Returned("ServiceName") :
       v = trimDot(record.Service) \o <<Dot>>
           \o (IF record.Domain = << >> THEN Local ELSE trimDot(record.Domain))
           \o <<Dot>>

\* C9: ServiceInstanceName() returns the empty string if and only if Instance
\* is empty; otherwise it returns the trimmed instance, a delimiter and what
\* ServiceName() returns ("My Printer._http._tcp.local." for the example).
C9_ServiceInstanceName ==
    \A v \in Returned("ServiceInstanceName") :
       /\ (v = << >>) <=> (record.Instance = << >>)
       /\ record.Instance # << >> =>
             v = trimDot(record.Instance) \o <<Dot>> \o ServiceName(record).ret
       /\ ( /\ record.Instance = MyPrinter
            /\ record.Service = HttpTcp
            /\ record.Domain = Local ) => v = MyPrinterInstanceName

\* ServiceInstanceName() has returned on a record whose instance ends in a delimiter.
C9_Witness ==
    /\ Len(rets.ServiceInstanceName) >= 1
    /\ record.Instance = << "a", Dot >>
    /\ record.Service = HttpTcp

\* A component with one trailing delimiter removed, if it carries one.
Chop(str) ==
    IF str # << >> /\ str[Len(str)] = Dot THEN SubSeq(str, 1, Len(str) - 1) ELSE str

\* The fresh records built from the same inputs, each with or without its
\* trailing delimiter.
Chopped(s) ==
    { NewServiceRecord(i, sv, d) :
         i \in {s.Instance, Chop(s.Instance)},
         sv \in {s.Service, Chop(s.Service)},
         d \in {s.Domain, Chop(s.Domain)} }

\* Every call of each accessor returned the same string.
ComposedTwiceSame ==
    \A a \in DOMAIN rets : Cardinality(Returned(a)) <= 1

\* The record's names are those of the record q.
SameNames(q) ==
    /\ \A v \in Returned("ServiceName") : v = ServiceName(q).ret
    /\ \A v \in Returned("ServiceInstanceName") : v = ServiceInstanceName(q).ret
    /\ \A v \in Returned("ServiceTypeName") : v = ServiceTypeName(q).ret

NonEmptyFields(s) ==
    s.Instance # << >> /\ s.Service # << >> /\ s.Domain # << >>

\* C10 as stated: for all non-empty instance, service and domain, composing a
\* name twice gives the same string, and inputs that carry a trailing delimiter
\* give the same three names as the same inputs with that delimiter removed.
C10_TrailingDelimiterIgnored ==
    NonEmptyFields(record) =>
       /\ ComposedTwiceSame
       /\ \A q \in Chopped(record) : SameNames(q)

\* C10 as amended: the same, for inputs whose instance and domain are still
\* non-empty once the trailing delimiter is removed.
C10_TrailingDelimiterIgnoredNonEmpty ==
    NonEmptyFields(record) =>
       /\ ComposedTwiceSame
       /\ \A q \in Chopped(record) :
             q.Instance # << >> /\ q.Domain # << >> => SameNames(q)

\* Each accessor was called twice on a record whose three inputs end in a delimiter.
C10_Witness ==
    /\ \A a \in DOMAIN rets : Len(rets[a]) >= 2
    /\ record.Instance = << "a", Dot >>
    /\ record.Service = << "a", Dot >>
    /\ record.Domain = Local \o <<Dot>>

\* C11: ServiceTypeName() depends on Domain only: it is what any fresh record
\* with the same Domain returns, whatever its Instance and Service, namely
\* "_services._dns-sd._udp." followed by the trimmed Domain ("local" when
\* Domain is empty) and one trailing delimiter.
C11_ServiceTypeNameOfDomainOnly ==
    \A v \in Returned("ServiceTypeName") :
       /\ v = MetaQueryPrefix
                \o (IF record.Domain = << >> THEN Local ELSE trimDot(record.Domain))
                \o <<Dot>>
       /\ \A i \in Instances, sv \in Services :
             ServiceTypeName(NewServiceRecord(i, sv, record.Domain)).ret = v

\* ServiceTypeName() was called on a record with an empty Domain, after the
\* other two accessors had filled their caches.
C11_Witness ==
    /\ Len(rets.ServiceTypeName) >= 1
    /\ Len(rets.ServiceName) >= 1
    /\ record.Domain = << >>
    /\ record.Instance = MyPrinter
    /\ rets.ServiceTypeName[1] = MetaQueryPrefix \o Local \o <<Dot>>

\* This step is a call of the accessor; LastRet is what it returned.
CallOf(accessor) == Len(rets'[accessor]) = Len(rets[accessor]) + 1
LastRet(accessor) == rets'[accessor][Len(rets'[accessor])]

\* A name, once cached, is never replaced: neither by a call nor by a field
\* being reassigned.
CacheKept ==
    \A a \in DOMAIN rets :
       record[CacheOf(a)] # << >> => record'[CacheOf(a)] = record[CacheOf(a)]

\* C15 as stated (SpecStale): once an accessor has cached its name, every later
\* call of it returns the cached value and recomputes nothing, also after
\* Instance, Service or Domain has been reassigned.
C15_CachedNameReturned ==
    [][ /\ CacheKept
        /\ \A a \in DOMAIN rets :
              CallOf(a) /\ record[CacheOf(a)] # << >>
                 => LastRet(a) = record[CacheOf(a)] ]_vars

\* C15 amended (SpecStale): the same for ServiceName and ServiceTypeName; and
\* for ServiceInstanceName while Instance is not empty at the call. With an
\* empty Instance, ServiceInstanceName returns "" whatever is cached, and
\* caches nothing.
C15_CachedNameReturnedUnlessNoInstance ==
    [][ /\ CacheKept
        /\ \A a \in {"ServiceName", "ServiceTypeName"} :
              CallOf(a) /\ record[CacheOf(a)] # << >>
                 => LastRet(a) = record[CacheOf(a)]
        /\ CallOf("ServiceInstanceName") =>
              IF record.Instance = << >>
              THEN /\ LastRet("ServiceInstanceName") = << >>
                   /\ record'.serviceInstanceName = record.serviceInstanceName
              ELSE record.serviceInstanceName # << >>
                      => LastRet("ServiceInstanceName") = record.serviceInstanceName
      ]_vars

\* What the accessors would return on a fresh record with the present fields.
FreshNames ==
    LET s == NewServiceRecord(record.Instance, record.Service, record.Domain)
    IN  [ServiceName         |-> ServiceName(s).ret,
         ServiceInstanceName |-> ServiceInstanceName(s).ret,
         ServiceTypeName     |-> ServiceTypeName(s).ret]

\* Every accessor has been called twice, the second time returning a cached
\* name that the present fields no longer compose.
C15_Witness ==
    \A a \in DOMAIN rets :
       /\ Len(rets[a]) >= 2
       /\ rets[a][2] = rets[a][1]
       /\ rets[a][2] = record[CacheOf(a)]
       /\ rets[a][2] # FreshNames[a]

\* C16 (SpecRace): goroutines making their first calls of the accessors
\* concurrently on one record, its fields unchanged: no call fails, every call
\* returns the name the fields compose, and the memo field of an accessor that
\* has returned a name holds exactly that name.
C16_ConcurrentFirstCallsAgree ==
    /\ Running
    /\ \A g \in Goroutines :
          gor[g].pc = "done" =>
             /\ gor[g].out = StringOf(FreshNames[gor[g].acc])
             /\ gor[g].out # NoString => words[CacheOf(gor[g].acc)] = gor[g].out

\* What does hold of C16 (SpecRace): the same, in the builds where the data
\* pointer of a stored string becomes visible before its length.
C16_AgreeWhenDataFirst == ~lenFirst => C16_ConcurrentFirstCallsAgree

----------------------------------------------------------------------------
(* Claims about the entryCache and Browser.Entries *)

Holding(r) == rpc[r] = "returned"

\* The ServiceEntry values of a slice, and those of a cache state.
Copies(r)    == { result[r][i] : i \in 1..Len(result[r]) }
EntriesOf(m) == { m[k] : k \in DOMAIN m }

\* C3 (SpecCache): a snapshot that runs while a writer holding the exclusive
\* lock upserts or removes returns a complete state of the cache, the one
\* before that write or the one after it: the state the last completed write
\* left when the reader got the lock, never a half-written entry or a mix.
C3_SnapshotIsPreOrPost ==
    \A r \in Readers :
       Holding(r) /\ ~cacheNil =>
          /\ Copies(r) = EntriesOf(hist.atLock[r])
          /\ Len(result[r]) = Cardinality(DOMAIN hist.atLock[r])

\* A reader holds a snapshot with the entry of the only write so far, a write
\* that was under way when the call began or began while it waited for the lock.
C3_Witness ==
    \E r \in Readers :
       /\ Holding(r)
       /\ ~hist.quiet[r]
       /\ nwrites = 1
       /\ result[r] # << >>

\* A slice or pointer field with what it refers to in place of the reference.
Deref(h, ref) == IF ref \in DOMAIN h THEN h[ref] ELSE "nil"

Deep(e) ==
    [e EXCEPT !.Text = Deref(heap.arrays, e.Text),
              !.AddrIPv4 = Deref(heap.arrays, e.AddrIPv4),
              !.refreshTime = Deref(heap.times, e.refreshTime),
              !.expiryTime = Deref(heap.times, e.expiryTime)]

\* What the cache stores, slices and timestamps included.
CacheDeep == [k \in DOMAIN entries |-> Deep(entries[k])]

\* C4 (SpecAlias): the entries Entries returns are independent copies: whatever
\* a caller writes into one (its Text, its address lists, its timestamps), what
\* the cache stores does not change.
C4_CopiesAreIndependent ==
    [][ (\E r \in Readers : MutateCopy(r)) => CacheDeep' = CacheDeep ]_vars

\* C5 (SpecExpiry): no entry whose expiryTime was already in the past when
\* Entries was called is in the slice it returns, removed from the map or not.
C5_NoExpiredEntryReturned ==
    \A r \in Readers :
       Holding(r) =>
          \A e \in Copies(r) :
             e.expiryTime \in DOMAIN heap.times =>
                heap.times[e.expiryTime] >= hist.callTime[r]

\* C6 (SpecCache): once the upserts and removes of the writers, each on its own
\* key, have completed, a snapshot holds exactly one entry for each key whose
\* last operation was an upsert, and nothing else.
C6_FinalSnapshotIsNetState ==
    \A r \in Readers :
       Holding(r) /\ hist.quiet[r] =>
          /\ { e.key : e \in Copies(r) } = { k \in Keys : hist.net[k] }
          /\ Len(result[r]) = Cardinality({ k \in Keys : hist.net[k] })

\* After every write the bound allows, with every key present, a reader holds
\* a snapshot taken while no writer was at work.
C6_Witness ==
    \E r \in Readers :
       /\ Holding(r)
       /\ hist.quiet[r]
       /\ nwrites = MaxWrites
       /\ \A k \in Keys : hist.net[k]

\* C7 (SpecCache): Entries never fails; on an empty cache and on a Browser with
\* no cache it returns an empty slice, and it holds no lock when it has returned.
C7_EntriesOnEmptyOrNilCache ==
    \A r \in Readers :
       /\ ~hist.failed[r]
       /\ Holding(r) => r \notin rw.readers
       /\ Holding(r) /\ (cacheNil \/ hist.atLock[r] = NoEntries) => result[r] = << >>
       /\ cacheNil => rw.readers = {}

\* Entries has returned on a Browser with no cache.
C7_Witness ==
    \E r \in Readers : Holding(r) /\ cacheNil /\ result[r] = << >>

\* The writers between Lock() having returned and Unlock().
Exclusive == { w \in Writers : wr[w].pc \in {"locked", "half", "written"} }

\* C14 (SpecCache): snapshot reads never block each other: a reader waiting in
\* RLock can take the shared lock whenever no writer holds or awaits the lock,
\* however many readers hold it; a writer holding the lock excludes every
\* reader and every other writer; and while a reader holds the lock the map is
\* as the last completed write left it (no half-done write is visible).
C14_SharedReadExclusiveWrite ==
    /\ rw.writer # 0 => rw.readers = {}
    /\ Exclusive = {rw.writer} \ {0}
    /\ rw.readers # {} => entries = hist.committed
    /\ \A r \in Readers :
          rpc[r] = "rlock" /\ rw.writer = 0 /\ rw.pending = 0
             => ENABLED Entries_RLock(r)

\* Both readers hold the shared lock at once, on a cache that is not empty.
C14_Witness ==
    /\ rw.readers = Readers
    /\ entries # NoEntries

\* C17 (SpecCache): the read-lock holders are exactly the Entries calls inside
\* the range loop, so with no Entries call in progress nobody holds the read
\* lock and a writer awaiting the lock can take it.
C17_ReadLockReleased ==
    /\ rw.readers = { r \in Readers : rpc[r] = "range" }
    /\ (\A r \in Readers : rpc[r] \in {"idle", "returned"}) =>
          /\ rw.readers = {}
          /\ \A w \in Writers : wr[w].pc = "waiting" => ENABLED cache_Locked(w)

\* A second write holds the exclusive lock, taken after an Entries call that
\* saw the first write had completed and released the read lock.
C17_Witness ==
    \E r \in Readers :
       /\ Holding(r)
       /\ result[r] # << >>
       /\ nwrites >= 2
       /\ rw.writer # 0

====
